---- MODULE Spec2Model ----
(***************************************************************************)
(* Scheduler queues of scrapy (scrapy/squeues.py): memory and disk queues, *)
(* FIFO and LIFO, the pickle and marshal serializing queues and the        *)
(* request <-> dict adapter of the disk request queues, together with the  *)
(* Request.to_dict / Request.from_dict conversion they rely on.            *)
(***************************************************************************)
EXTENDS Naturals, Sequences, FiniteSets, TLC

\* ------------------------------------------------------------------ bounds
\* The largest number of items the queues of the model hold together.
MaxLen == 3

\* ------------------------------------------------------------------ values
\* Every Python value of the model is a record of strings with a tag t.
Val(t, url, cb, eb, pl) == [t |-> t, url |-> url, cb |-> cb, eb |-> eb, pl |-> pl]

\* Python's None: the value pop and peek return for an empty queue.
None == Val("None", "", "", "", "")

\* {}: a falsy record.
EmptyDict == Val("EmptyDict", "", "", "", "")

\* A Request: callback and errback are "None" or the name of a callable; pl
\* is "live" when meta holds a resource no codec can encode.
Request(url, cb, eb, pl) == Val("Request", url, cb, eb, pl)

\* The dict Request.to_dict builds.
Dict(url, cb, eb, pl) == Val("dict", url, cb, eb, pl)

\* The callables that are methods of the spider.
SpiderMethods == {"parse"}

\* The spider of the crawler (crawler.spider).
Spider == "spider"

ReqX == Request("http://x", "parse", "None", "ok")
ReqY == Request("http://y", "None", "None", "ok")
ReqAlien == Request("http://x", "alien", "None", "ok")
ReqEbAlien == Request("http://y", "parse", "alien", "ok")
ReqLive == Request("http://x", "parse", "None", "live")

\* What is pushed to a disk request queue, to a bare serializing disk queue
\* and to a memory queue.
Requests == {ReqX, ReqY, ReqAlien, ReqEbAlien, ReqLive}
RawValues == {EmptyDict, Dict("http://y", "None", "None", "ok"),
              Dict("http://x", "parse", "None", "live")}
MemItems == {ReqX, ReqY, EmptyDict}

\* A record a previous run stored whose callback names a method the spider of
\* this run does not have.
StaleRecord == Dict("http://x", "gone", "None", "ok")

\* Python truthiness (bool(v)) of the values of the model.
Truthy(v) == v.t \notin {"None", "EmptyDict"}

\* ---------------------------------------------------------------- outcomes
\* A call returns a value or raises an exception (with its __cause__).
Ret(v) == [kind |-> "return", val |-> v, exc |-> "", cause |-> ""]
Raise(e, c) == [kind |-> "raise", val |-> None, exc |-> e, cause |-> c]
NoCall == [kind |-> "none", val |-> None, exc |-> "", cause |-> ""]

\* ------------------------------------------------------------------ codecs
\* A byte string: what a codec wrote. It is never empty.
Bytes(codec, v) == [t |-> "bytes", codec |-> codec, body |-> v]

\* A bug: the except clause of _pickle_serialize is missing.
pickle_serialize_NoCatch(obj) ==
    IF obj.pl = "live" THEN Raise("TypeError", "")
    ELSE Ret(Bytes("pickle", obj))

\* pickle.dumps(obj, protocol=4) fails on a live resource with TypeError.
pickle_serialize(obj) ==
    IF obj.pl = "live" THEN Raise("ValueError", "TypeError")
    ELSE Ret(Bytes("pickle", obj))

\* marshal.dumps raises ValueError itself on an unmarshallable object: a live
\* resource, or an instance of a class such as Request.
marshal_dumps(obj) ==
    IF obj.pl = "live" \/ obj.t = "Request" THEN Raise("ValueError", "")
    ELSE Ret(Bytes("marshal", obj))

pickle_loads(s) ==
    IF s.codec = "pickle" THEN Ret(s.body) ELSE Raise("UnpicklingError", "")

marshal_loads(s) ==
    IF s.codec = "marshal" THEN Ret(s.body) ELSE Raise("ValueError", "")

\* ------------------------------------------------------- request <-> dict
\* _find_method: the name of the spider method func is, or ValueError.
find_method(obj, func) ==
    IF obj # "None" /\ func \in SpiderMethods
    THEN [ok |-> TRUE, name |-> func]
    ELSE [ok |-> FALSE, name |-> ""]

\* _get_method: getattr(obj, name), or ValueError.
get_method(obj, name) ==
    IF name \in SpiderMethods
    THEN [ok |-> TRUE, name |-> name]
    ELSE [ok |-> FALSE, name |-> ""]

\* Request.to_dict(spider)
to_dict(r, spider) ==
    LET cb == IF r.cb # "None" THEN find_method(spider, r.cb)
              ELSE [ok |-> TRUE, name |-> "None"]
        eb == IF r.eb # "None" THEN find_method(spider, r.eb)
              ELSE [ok |-> TRUE, name |-> "None"]
    IN  IF ~cb.ok THEN Raise("ValueError", "")
        ELSE IF ~eb.ok THEN Raise("ValueError", "")
        ELSE Ret(Dict(r.url, cb.name, eb.name, r.pl))

\* Request.from_dict(d, spider)
from_dict(d, spider) ==
    IF d.t = "EmptyDict" THEN Raise("KeyError", "")
    ELSE IF d.t # "dict" THEN Raise("TypeError", "")
    ELSE
    LET cb == IF d.cb # "None" /\ spider # "None" THEN get_method(spider, d.cb)
              ELSE [ok |-> TRUE, name |-> d.cb]
        eb == IF d.eb # "None" /\ spider # "None" THEN get_method(spider, d.eb)
              ELSE [ok |-> TRUE, name |-> d.eb]
    IN  IF ~cb.ok THEN Raise("ValueError", "")
        ELSE IF ~eb.ok THEN Raise("ValueError", "")
        ELSE Ret(Request(d.url, cb.name, eb.name, d.pl))

\* scrapy.utils.reqser: thin wrappers of the two conversions.
request_to_dict(request, spider) == to_dict(request, spider)
request_from_dict(d, spider) == from_dict(d, spider)

\* ---------------------------------------------------------- queue classes
MemoryClasses == {"FifoMemoryQueue", "LifoMemoryQueue"}
RequestDiskClasses ==
    {"PickleFifoDiskQueue", "PickleLifoDiskQueue",
     "MarshalFifoDiskQueue", "MarshalLifoDiskQueue"}
NonRequestDiskClasses ==
    {"PickleFifoDiskQueueNonRequest", "PickleLifoDiskQueueNonRequest",
     "MarshalFifoDiskQueueNonRequest", "MarshalLifoDiskQueueNonRequest"}
DiskClasses == RequestDiskClasses \cup NonRequestDiskClasses
Classes == MemoryClasses \cup DiskClasses

\* The bases each class is built from: whether _DiskRequestQueue is mixed in,
\* the serialize/deserialize pair, and the queuelib store with its ordering.
ClassDef(cls) ==
    CASE cls = "FifoMemoryQueue" ->
           [adapter |-> FALSE, ser |-> "none", medium |-> "memory", order |-> "fifo"]
      [] cls = "LifoMemoryQueue" ->
           [adapter |-> FALSE, ser |-> "none", medium |-> "memory", order |-> "lifo"]
      [] cls = "PickleFifoDiskQueue" ->
           [adapter |-> TRUE, ser |-> "pickle", medium |-> "disk", order |-> "fifo"]
      [] cls = "PickleLifoDiskQueue" ->
           [adapter |-> TRUE, ser |-> "pickle", medium |-> "disk", order |-> "lifo"]
      [] cls = "MarshalFifoDiskQueue" ->
           [adapter |-> TRUE, ser |-> "marshal", medium |-> "disk", order |-> "fifo"]
      [] cls = "MarshalLifoDiskQueue" ->
           [adapter |-> TRUE, ser |-> "marshal", medium |-> "disk", order |-> "lifo"]
      [] cls = "PickleFifoDiskQueueNonRequest" ->
           [adapter |-> FALSE, ser |-> "pickle", medium |-> "disk", order |-> "fifo"]
      [] cls = "PickleLifoDiskQueueNonRequest" ->
           [adapter |-> FALSE, ser |-> "pickle", medium |-> "disk", order |-> "lifo"]
      [] cls = "MarshalFifoDiskQueueNonRequest" ->
           [adapter |-> FALSE, ser |-> "marshal", medium |-> "disk", order |-> "fifo"]
      [] cls = "MarshalLifoDiskQueueNonRequest" ->
           [adapter |-> FALSE, ser |-> "marshal", medium |-> "disk", order |-> "lifo"]

\* A bug: PickleFifoDiskQueue built on queue.LifoDiskQueue.
StoreOrder_PickleFifoOnLifo(cls) ==
    IF cls = "PickleFifoDiskQueue" THEN "lifo" ELSE ClassDef(cls).order

\* A bug: every class built on a FIFO store.
StoreOrder_AllFifo(cls) == "fifo"

\* The ordering of the queuelib class a class is built on.
StoreOrder(cls) == ClassDef(cls).order

\* cls.serialize and cls.deserialize
\* A bug: _MarshalLifoSerializationDiskQueue with deserialize = pickle.loads.
deserialize_Mispaired(cls, s) ==
    IF ClassDef(cls).ser = "pickle" \/ cls = "MarshalLifoDiskQueue"
    THEN pickle_loads(s) ELSE marshal_loads(s)

\* A bug: _PickleLifoSerializationDiskQueue with serialize = marshal.dumps.
serialize_Mispaired(cls, obj) ==
    IF ClassDef(cls).ser = "pickle" /\ cls # "PickleLifoDiskQueueNonRequest"
    THEN pickle_serialize(obj) ELSE marshal_dumps(obj)

serialize(cls, obj) ==
    IF ClassDef(cls).ser = "pickle" THEN pickle_serialize(obj) ELSE marshal_dumps(obj)

deserialize(cls, s) ==
    IF ClassDef(cls).ser = "pickle" THEN pickle_loads(s) ELSE marshal_loads(s)

\* ------------------------------------------------- backing store (queuelib)
\* s without its i-th item.
Without(s, i) == SubSeq(s, 1, i - 1) \o SubSeq(s, i + 1, Len(s))

\* The result of a queue method: its outcome and the store's items after it.
Out(res, items) == [res |-> res, items |-> items]

Front(s) == SubSeq(s, 1, Len(s) - 1)
Last(s) == s[Len(s)]

\* queuelib's push: append at the tail.
queue_push(items, s) == Out(Ret(None), Append(items, s))

\* queuelib's pop: remove at the head (FIFO) or at the tail (LIFO); None when
\* the store is empty.
queue_pop(order, items) ==
    IF items = <<>> THEN Out(Ret(None), items)
    ELSE IF order = "fifo" THEN Out(Ret(Head(items)), Tail(items))
    ELSE Out(Ret(Last(items)), Front(items))

\* queuelib's peek, which older releases do not have (AttributeError).
queue_peek(order, items, hasPeek) ==
    IF ~hasPeek THEN Out(Raise("AttributeError", ""), items)
    ELSE IF items = <<>> THEN Out(Ret(None), items)
    ELSE IF order = "fifo" THEN Out(Ret(Head(items)), items)
    ELSE Out(Ret(Last(items)), items)

\* ------------------------------------------------------ _SerializationQueue
SerializationQueue_push(cls, items, obj) ==
    LET s == serialize(cls, obj)
    IN  IF s.kind = "raise" THEN Out(s, items)
        ELSE queue_push(items, s.val)

\* A bug: pop without the "if s" guard; pickle.loads(None) and
\* marshal.loads(None) raise TypeError.
SerializationQueue_pop_NoGuard(cls, items) ==
    LET o == queue_pop(StoreOrder(cls), items)
        s == o.res.val
    IN  IF s = None THEN Out(Raise("TypeError", ""), o.items)
        ELSE Out(deserialize(cls, s), o.items)

SerializationQueue_pop(cls, items) ==
    LET o == queue_pop(StoreOrder(cls), items)
        s == o.res.val
    IN  IF Truthy(s) THEN Out(deserialize(cls, s), o.items)
        ELSE Out(Ret(None), o.items)

\* A bug: peek that reads the next item with the store's pop.
SerializationQueue_peek_Popping(cls, items, hasPeek) ==
    LET o == IF hasPeek THEN queue_pop(StoreOrder(cls), items)
             ELSE queue_peek(StoreOrder(cls), items, hasPeek)
        s == o.res.val
    IN  IF o.res.kind = "raise"
        THEN Out(Raise("NotImplementedError", o.res.exc), o.items)
        ELSE IF Truthy(s) THEN Out(deserialize(cls, s), o.items)
        ELSE Out(Ret(None), o.items)

SerializationQueue_peek(cls, items, hasPeek) ==
    LET o == queue_peek(StoreOrder(cls), items, hasPeek)
        s == o.res.val
    IN  IF o.res.kind = "raise"
        THEN Out(Raise("NotImplementedError", o.res.exc), o.items)
        ELSE IF Truthy(s) THEN Out(deserialize(cls, s), o.items)
        ELSE Out(Ret(None), o.items)

\* ------------------------------------------------------------ _MemoryQueue
\* A bug: peek without the try/except around super().peek().
MemoryQueue_peek_NoCatch(cls, items, hasPeek) ==
    queue_peek(StoreOrder(cls), items, hasPeek)

MemoryQueue_peek(cls, items, hasPeek) ==
    LET o == queue_peek(StoreOrder(cls), items, hasPeek)
    IN  IF o.res.kind = "raise"
        THEN Out(Raise("NotImplementedError", o.res.exc), o.items)
        ELSE o

\* ------------------------------------------------------- _DiskRequestQueue
DiskRequestQueue_push(cls, spider, items, request) ==
    LET d == request_to_dict(request, spider)
    IN  IF d.kind = "raise" THEN Out(d, items)
        ELSE SerializationQueue_push(cls, items, d.val)

\* A bug: pop that reads the record and leaves it in the store.
DiskRequestQueue_pop_NoRemove(cls, spider, items) ==
    LET o == SerializationQueue_pop(cls, items)
    IN  IF o.res.kind = "raise" THEN Out(o.res, items)
        ELSE IF Truthy(o.res.val)
        THEN Out(request_from_dict(o.res.val, spider), items)
        ELSE Out(Ret(None), items)

\* A bug: pop that puts the item back when it cannot be decoded or converted.
DiskRequestQueue_pop_Requeue(cls, spider, items) ==
    LET o == SerializationQueue_pop(cls, items)
        r == IF o.res.kind = "raise" THEN o.res
             ELSE IF Truthy(o.res.val) THEN request_from_dict(o.res.val, spider)
             ELSE Ret(None)
    IN  Out(r, IF r.kind = "raise" THEN items ELSE o.items)

DiskRequestQueue_pop(cls, spider, items) ==
    LET o == SerializationQueue_pop(cls, items)
    IN  IF o.res.kind = "raise" THEN o
        ELSE IF Truthy(o.res.val)
        THEN Out(request_from_dict(o.res.val, spider), o.items)
        ELSE Out(Ret(None), o.items)

DiskRequestQueue_peek(cls, spider, items, hasPeek) ==
    LET o == SerializationQueue_peek(cls, items, hasPeek)
    IN  IF o.res.kind = "raise" THEN o
        ELSE IF Truthy(o.res.val)
        THEN Out(request_from_dict(o.res.val, spider), o.items)
        ELSE Out(Ret(None), o.items)

\* ------------------------------------------ the methods of a public class
push(cls, spider, items, obj) ==
    IF ClassDef(cls).medium = "memory" THEN queue_push(items, obj)
    ELSE IF ClassDef(cls).adapter THEN DiskRequestQueue_push(cls, spider, items, obj)
    ELSE SerializationQueue_push(cls, items, obj)

pop(cls, spider, items) ==
    IF ClassDef(cls).medium = "memory" THEN queue_pop(StoreOrder(cls), items)
    ELSE IF ClassDef(cls).adapter THEN DiskRequestQueue_pop(cls, spider, items)
    ELSE SerializationQueue_pop(cls, items)

peek(cls, spider, items, hasPeek) ==
    IF ClassDef(cls).medium = "memory" THEN MemoryQueue_peek(cls, items, hasPeek)
    ELSE IF ClassDef(cls).adapter THEN DiskRequestQueue_peek(cls, spider, items, hasPeek)
    ELSE SerializationQueue_peek(cls, items, hasPeek)

\* ------------------------------------------------------------------- state
\* The variables holding a queue object, and the paths of the disk queues.
AllHandles == {"h1", "h2"}
Handles == {"h1"}
Paths == {"jobdir/requests.queue/p0"}
AllPaths == {"jobdir/requests.queue/p0", "jobdir/requests.queue/p1"}
Dirname(path) == "jobdir/requests.queue"

VARIABLES
    handles,    \* per variable: the queue object it holds (st, cls, path, q)
    disk,       \* per path: the store's files (fmt) and the byte strings in them
    dirs,       \* the directories that exist
    hasPeek,    \* whether the installed queuelib has peek
    lastOp,     \* the last call made: the method, the variable, the argument
    lastRes,    \* what the last call returned or raised
    glog,       \* per store: the values pushed and not yet popped, in push order
    run,        \* per variable: the pushes and pops since the queue was opened
    mk,         \* per thread: how far its disk queue constructor has come
    cx,         \* a value on its way through serialize and deserialize of a class
    rq,         \* a request on its way through to_dict and from_dict
    px,         \* a request on its way through HttpProxyMiddleware.process_request
    settings,   \* DNSCACHE_ENABLED, DNSCACHE_SIZE and DNS_TIMEOUT of the crawler
    dnscache,   \* the module's DNS cache: its limit and its entries, oldest first
    resolver,   \* the CachingThreadedResolver of the reactor: its timeout
    lookups,    \* the lookups of the underlying resolver that are under way
    dnsOp       \* the last call or event of the resolver, and its outcome

vars == <<handles, disk, dirs, hasPeek, lastOp, lastRes, glog, run>>

\* The variables the calls on queues leave alone.
\* The state of the resolver.
dnsVars == <<settings, dnscache, resolver, lookups, dnsOp>>

others == <<mk, cx, rq, px, dnsVars>>

\* The threads that construct disk queues at the same time, each at a path of
\* its own in the same directory.
Threads == {"t1", "t2", "t3"}
NoThread == [pc |-> "idle", res |-> "none", lost |-> FALSE]

\* A value v, the outcome s of cls.serialize(v) and the outcome out of
\* cls.deserialize of the bytes.
CodecRun(phase, cls, v, s, out) ==
    [phase |-> phase, cls |-> cls, v |-> v, s |-> s, out |-> out]
NoCodecRun == [phase |-> "off"]

\* dnscache = LocalCache(10000)
DefaultLimit == 10000
NoResolver == [built |-> FALSE, timeout |-> 0]
NoDnsOp == [op |-> "none", name |-> "", d |-> "", result |-> ""]

InitDns ==
    /\ dnscache = [limit |-> DefaultLimit, data |-> <<>>]
    /\ resolver = NoResolver
    /\ lookups = <<>>
    /\ dnsOp = NoDnsOp

\* A request r, the outcome d of r.to_dict(spider) and the outcome r2 of
\* Request.from_dict of the dict.
NoRequestRun == [phase |-> "off"]

\* No middleware made and no request handed to it.
NoProxyRun == [phase |-> "off"]

NoHandle == [st |-> "unopened", cls |-> "none", path |-> "none", q |-> <<>>]
NoRun == [phase |-> "off", V |-> <<>>, outs |-> <<>>]
NewRun == [phase |-> "push", V |-> <<>>, outs |-> <<>>]
Call(op, h, arg) == [op |-> op, h |-> h, arg |-> arg]

\* The store of the queue a variable holds: the variable itself for a memory
\* queue, the path for a disk queue.
StoreOf(h) == IF handles[h].path = "mem" THEN h ELSE handles[h].path
Items(h) == IF handles[h].path = "mem" THEN handles[h].q ELSE disk[handles[h].path].items

\* The number of items held by the stores in S.
RECURSIVE Held(_)
Held(S) ==
    IF S = {} THEN 0
    ELSE LET s == CHOOSE x \in S : TRUE
         IN  (IF s \in AllPaths THEN Len(disk[s].items) ELSE Len(handles[s].q))
             + Held(S \ {s})

InitQueues ==
    /\ handles = [h \in AllHandles |-> NoHandle]
    /\ disk = [p \in AllPaths |-> [fmt |-> "none", items |-> <<>>]]
    /\ dirs = {}
    /\ hasPeek \in BOOLEAN
    /\ lastOp = Call("none", "none", None)
    /\ lastRes = NoCall
    /\ glog = [s \in AllHandles \cup AllPaths |-> <<>>]
    /\ run = [h \in AllHandles |-> NoRun]
    /\ mk = [t \in Threads |-> NoThread]

Init ==
    /\ InitQueues
    /\ cx = NoCodecRun
    /\ rq = NoRequestRun
    /\ px = NoProxyRun
    /\ settings = [DNSCACHE_ENABLED |-> TRUE, DNSCACHE_SIZE |-> DefaultLimit, DNS_TIMEOUT |-> 60]
    /\ InitDns

\* A bug: a constructor that opens the store without providing the directory.
DirectoriesCreated_init_Skip(ds, path) == ds

\* _with_mkdir.DirectoriesCreated.__init__: the directories after the parent
\* of path was created if it was missing.
DirectoriesCreated_init(ds, path) ==
    IF Dirname(path) \notin ds THEN ds \cup {Dirname(path)} ELSE ds

\* queuelib's disk queue constructor: a FIFO queue is a directory of chunk
\* files, a LIFO queue one file; neither opens the other's path, and the file
\* of a LIFO queue cannot be created in a directory that does not exist.
queue_open(order, d, ds, path) ==
    IF d.fmt \notin {"none", order} THEN Out(Raise("OSError", ""), d)
    ELSE IF order = "lifo" /\ Dirname(path) \notin ds
    THEN Out(Raise("FileNotFoundError", ""), d)
    ELSE Out(Ret(None), [d EXCEPT !.fmt = order])

\* The directories after the constructor ran: a FIFO queue makes its own
\* directory with os.makedirs(path), which makes the parents too.
queue_open_dirs(order, d, ds, path) ==
    IF order = "fifo" /\ d.fmt = "none" THEN ds \cup {Dirname(path)} ELSE ds

\* queuelib's close: a disk queue that is empty removes its files.
queue_close(d) ==
    IF d.items = <<>> THEN [d EXCEPT !.fmt = "none"] ELSE d

\* A bug: the memory queues keep their items in one container of the class.
SetItems_Shared(h, items) ==
    IF handles[h].path = "mem"
    THEN /\ handles' = [g \in AllHandles |->
                IF handles[g].path = "mem" THEN [handles[g] EXCEPT !.q = items]
                ELSE handles[g]]
         /\ UNCHANGED disk
    ELSE /\ disk' = [disk EXCEPT ![handles[h].path].items = items]
         /\ UNCHANGED handles

\* The store after a call left it with items.
SetItems(h, items) ==
    IF handles[h].path = "mem"
    THEN /\ handles' = [handles EXCEPT ![h].q = items]
         /\ UNCHANGED disk
    ELSE /\ disk' = [disk EXCEPT ![handles[h].path].items = items]
         /\ UNCHANGED handles

\* cls.from_crawler(crawler) for a memory queue
OpenMemory(h, cls) ==
    /\ handles[h].st \in {"unopened", "closed"}
    /\ cls \in MemoryClasses
    /\ handles' = [handles EXCEPT ![h] = [st |-> "open", cls |-> cls, path |-> "mem", q |-> <<>>]]
    /\ glog' = [glog EXCEPT ![h] = <<>>]
    /\ run' = [run EXCEPT ![h] = NewRun]
    /\ lastOp' = Call("open", h, None)
    /\ lastRes' = Ret(None)
    /\ UNCHANGED <<disk, dirs, hasPeek>>
    /\ UNCHANGED others

\* cls.from_crawler(crawler, key) for a disk queue: _DiskRequestQueue.__init__
\* keeps the spider, DirectoriesCreated.__init__ provides the directory, and
\* the store opens the path.
OpenDisk(h, cls, path) ==
    /\ handles[h].st \in {"unopened", "closed"}
    /\ cls \in DiskClasses
    /\ \A g \in AllHandles : ~(handles[g].st = "open" /\ handles[g].path = path)
    /\ LET made == DirectoriesCreated_init(dirs, path)
           o == queue_open(StoreOrder(cls), disk[path], made, path)
       IN  /\ dirs' = queue_open_dirs(StoreOrder(cls), disk[path], made, path)
           /\ disk' = [disk EXCEPT ![path] = o.items]
           /\ lastRes' = o.res
           /\ IF o.res.kind = "raise"
              THEN UNCHANGED <<handles, run>>
              ELSE /\ handles' = [handles EXCEPT ![h] =
                          [st |-> "open", cls |-> cls, path |-> path, q |-> <<>>]]
                   /\ run' = [run EXCEPT ![h] =
                          IF glog[path] = <<>> THEN NewRun
                          ELSE IF \A i \in 1..Len(glog[path]) : glog[path][i].cls = cls
                          THEN [phase |-> "resumed",
                                V |-> [i \in 1..Len(glog[path]) |-> glog[path][i].item],
                                outs |-> <<>>]
                          ELSE NoRun]
    /\ glog' = [glog EXCEPT ![h] = IF lastRes'.kind = "raise" THEN @ ELSE <<>>]
    /\ lastOp' = Call("open", h, None)
    /\ UNCHANGED hasPeek
    /\ UNCHANGED others

\* What the callers of a class push to it.
Inputs(cls) ==
    IF cls \in MemoryClasses THEN MemItems
    ELSE IF cls \in RequestDiskClasses THEN Requests
    ELSE RawValues

\* The ordering a class promises by its name.
Promised(cls) ==
    IF cls \in {"FifoMemoryQueue", "PickleFifoDiskQueue", "MarshalFifoDiskQueue",
                "PickleFifoDiskQueueNonRequest", "MarshalFifoDiskQueueNonRequest"}
    THEN "fifo" ELSE "lifo"

\* q.push(obj)
Pushing(h, obj) ==
    /\ handles[h].st = "open"
    /\ Held(AllHandles \cup AllPaths) < MaxLen
    /\ LET o == push(handles[h].cls, Spider, Items(h), obj)
           ok == o.res.kind = "return"
       IN  /\ SetItems(h, o.items)
           /\ lastRes' = o.res
           /\ glog' = [glog EXCEPT ![StoreOf(h)] =
                  IF ok THEN Append(@, [item |-> obj, cls |-> handles[h].cls]) ELSE @]
           /\ run' = [run EXCEPT ![h] =
                  IF ok /\ @.phase = "push" THEN [@ EXCEPT !.V = Append(@, obj)]
                  ELSE NoRun]
    /\ lastOp' = Call("push", h, obj)
    /\ UNCHANGED <<dirs, hasPeek>>
    /\ UNCHANGED others

\* q.push(obj) with a value the callers of the class push.
Push(h, obj) == obj \in Inputs(handles[h].cls) /\ Pushing(h, obj)

\* A previous run left a record of a request whose callback this run's spider
\* does not have: the store gets the record as the class without the request
\* conversion writes it.
PushStale(h) == handles[h].cls \in NonRequestDiskClasses /\ Pushing(h, StaleRecord)

\* q.pop()
Pop(h) ==
    /\ handles[h].st = "open"
    /\ LET o == pop(handles[h].cls, Spider, Items(h))
       IN  /\ SetItems(h, o.items)
           /\ lastRes' = o.res
           /\ glog' = [glog EXCEPT ![StoreOf(h)] =
                  IF @ = <<>> THEN @
                  ELSE IF Promised(handles[h].cls) = "fifo" THEN Tail(@)
                  ELSE Front(@)]
           /\ run' = [run EXCEPT ![h] =
                  IF @.phase \in {"push", "drain"} /\ Len(@.outs) <= Len(@.V)
                  THEN [@ EXCEPT !.phase = "drain", !.outs = Append(@, o.res)]
                  ELSE IF @.phase = "resumed" /\ Len(@.outs) <= Len(@.V)
                  THEN [@ EXCEPT !.outs = Append(@, o.res)]
                  ELSE NoRun]
    /\ lastOp' = Call("pop", h, None)
    /\ UNCHANGED <<dirs, hasPeek>>
    /\ UNCHANGED others

\* q.peek()
Peek(h) ==
    /\ handles[h].st = "open"
    /\ LET o == peek(handles[h].cls, Spider, Items(h), hasPeek)
       IN  /\ SetItems(h, o.items)
           /\ lastRes' = o.res
    /\ lastOp' = Call("peek", h, None)
    /\ UNCHANGED <<dirs, hasPeek, glog, run>>
    /\ UNCHANGED others

\* q.close()
Close(h) ==
    /\ handles[h].st = "open"
    /\ handles' = [handles EXCEPT ![h].st = "closed"]
    /\ disk' = IF handles[h].path = "mem" THEN disk
               ELSE [disk EXCEPT ![handles[h].path] = queue_close(@)]
    /\ run' = [run EXCEPT ![h] = NoRun]
    /\ lastOp' = Call("close", h, None)
    /\ lastRes' = Ret(None)
    /\ UNCHANGED <<dirs, hasPeek, glog>>
    /\ UNCHANGED others

Next ==
    \E h \in Handles :
        \/ \E cls \in MemoryClasses : OpenMemory(h, cls)
        \/ \E cls \in DiskClasses, path \in Paths : OpenDisk(h, cls, path)
        \/ \E obj \in Requests \cup RawValues \cup MemItems : Push(h, obj)
        \/ Pop(h)
        \/ Peek(h)
        \/ Close(h)

Spec == Init /\ [][Next]_vars

\* The disk queues of a job directory that an earlier run with other spider
\* code wrote to.
NextStale ==
    \E h \in Handles :
        \/ \E cls \in DiskClasses, path \in Paths : OpenDisk(h, cls, path)
        \/ \E obj \in Requests \cup RawValues : Push(h, obj)
        \/ PushStale(h)
        \/ Pop(h)
        \/ Peek(h)
        \/ Close(h)

\* The installed store has peek.
InitStale == Init /\ hasPeek

SpecStale == InitStale /\ [][NextStale]_vars

\* Two queues held at the same time, in memory or at the paths of AllPaths,
\* with at most MaxPair items between them.
MaxPair == 2

\* The path the holder of a variable opens its disk queue at.
PathFor(h) == IF h = "h1" THEN "jobdir/requests.queue/p0" ELSE "jobdir/requests.queue/p1"

InitPair == Init /\ hasPeek

NextPair ==
    \E h \in AllHandles :
        \/ OpenMemory(h, "FifoMemoryQueue")
        \/ OpenDisk(h, "PickleLifoDiskQueue", PathFor(h))
        \/ \E obj \in {ReqX, ReqY} :
               Held(AllHandles \cup AllPaths) < MaxPair /\ Push(h, obj)
        \/ Pop(h)
        \/ Peek(h)
        \/ Close(h)

SpecPair == InitPair /\ [][NextPair]_vars

\* ------------------------------------------------- serialize, deserialize
\* The values given to the codec of a class: requests, the dicts of requests,
\* a dict with a live resource, {} and None.
CodecValues == Requests \cup RawValues \cup {StaleRecord, None}

InitCodec ==
    /\ InitQueues
    /\ cx \in {CodecRun("v", cls, v, NoCall, NoCall) :
                  cls \in DiskClasses, v \in CodecValues}
    /\ rq = NoRequestRun
    /\ px = NoProxyRun
    /\ settings = [DNSCACHE_ENABLED |-> TRUE, DNSCACHE_SIZE |-> DefaultLimit, DNS_TIMEOUT |-> 60]
    /\ InitDns

\* s = cls.serialize(v)
Serialize ==
    /\ cx.phase = "v"
    /\ cx' = [cx EXCEPT !.phase = "s", !.s = serialize(cx.cls, cx.v)]
    /\ UNCHANGED <<vars, mk, rq, px, dnsVars>>

\* cls.deserialize(s), for bytes that serialize returned
Deserialize ==
    /\ cx.phase = "s"
    /\ cx.s.kind = "return"
    /\ cx' = [cx EXCEPT !.phase = "out", !.out = deserialize(cx.cls, cx.s.val)]
    /\ UNCHANGED <<vars, mk, rq, px, dnsVars>>

NextCodec == Serialize \/ Deserialize

SpecCodec == InitCodec /\ [][NextCodec]_<<vars, others>>

\* ------------------------------------------------ Request, field by field
\* A callable: a bound method of an object (self, and func for its __func__),
\* or a function that is no method (self is "").
Callable(self, func) == [self |-> self, func |-> func]
NoCallable == Callable("", "None")
IsCallable(c) == c # NoCallable

\* inspect.getmembers(spider, inspect.ismethod): the methods of the spider by
\* name, in the order of the names; index is another name of parse.
Members(obj) ==
    IF obj = Spider
    THEN << [name |-> "index", func |-> "parse"],
            [name |-> "on_error", func |-> "on_error"],
            [name |-> "parse", func |-> "parse"] >>
    ELSE <<>>

\* _find_method(obj, func)
Request_find_method(obj, func) ==
    LET members == Members(obj)
        hits == {i \in 1..Len(members) : members[i].func = func.func}
    IN  IF obj # "None" /\ func.self # "" /\ hits # {}
        THEN Ret(members[CHOOSE i \in hits : \A j \in hits : i <= j].name)
        ELSE Raise("ValueError", "")

\* _get_method(obj, name)
Request_get_method(obj, name) ==
    LET members == Members(obj)
        hits == {i \in 1..Len(members) : members[i].name = name}
    IN  IF hits # {}
        THEN Ret(Callable(obj, members[CHOOSE i \in hits : TRUE].func))
        ELSE Raise("ValueError", "AttributeError")

\* str(method).upper()
upper(method) ==
    CASE method = "get" -> "GET" [] method = "post" -> "POST" [] OTHER -> method

\* _set_url: escape_ajax(safe_url_string(url, encoding))
set_url(url) ==
    CASE url = "http://x/a b" -> "http://x/a%20b"
      [] url = "http://x/#!a" -> "http://x/?_escaped_fragment_=a"
      [] OTHER -> url

\* _set_body: b'' for None, else to_bytes(body, encoding)
set_body(body) ==
    CASE body = "None" -> "b''" [] body = "'text'" -> "b'text'" [] OTHER -> body

\* Headers(headers or {}, encoding): keys in title case as bytes, values as
\* lists of bytes.
Headers_new(headers) ==
    CASE headers = "None" -> "{}"
      [] headers = "{'accept': 'a'}" -> "{b'Accept': [b'a']}"
      [] OTHER -> headers

\* x or {}
or_dict(x) == IF x \in {"None", "{}"} THEN "{}" ELSE x

\* dict(x) if x else None
dict_or_None(x) == IF x \in {"None", "{}"} THEN "None" ELSE x

\* Request.__init__ of the class cls with the arguments a.
Request_init(cls, a) ==
    [cls |-> cls,
     _encoding |-> a.encoding,
     method |-> upper(a.method),
     _url |-> set_url(a.url),
     _body |-> set_body(a.body),
     priority |-> a.priority,
     callback |-> a.callback,
     errback |-> a.errback,
     cookies |-> or_dict(a.cookies),
     headers |-> Headers_new(a.headers),
     dont_filter |-> a.dont_filter,
     _meta |-> dict_or_None(a.meta),
     _cb_kwargs |-> dict_or_None(a.cb_kwargs),
     flags |-> IF a.flags = "None" THEN "[]" ELSE a.flags]

\* The properties meta and cb_kwargs: {} where nothing was given.
meta(r) == IF r._meta = "None" THEN "{}" ELSE r._meta
cb_kwargs(r) == IF r._cb_kwargs = "None" THEN "{}" ELSE r._cb_kwargs

\* self.__module__ + '.' + self.__class__.__name__, and load_object of it
ClassPath(cls) == IF cls = "PageRequest" THEN "project.http.PageRequest" ELSE "scrapy.http.request.Request"
load_object(path) == IF path = "project.http.PageRequest" THEN "PageRequest" ELSE "Request"

\* Request.to_dict(spider); _class is "" where the dict has no such key.
Request_to_dict(r, spider) ==
    LET cb == IF IsCallable(r.callback) THEN Request_find_method(spider, r.callback)
              ELSE Ret("None")
        eb == IF IsCallable(r.errback) THEN Request_find_method(spider, r.errback)
              ELSE Ret("None")
    IN  IF cb.kind = "raise" THEN cb
        ELSE IF eb.kind = "raise" THEN eb
        ELSE Ret([url |-> r._url,
                  callback |-> cb.val,
                  errback |-> eb.val,
                  headers |-> r.headers,
                  _encoding |-> r._encoding,
                  method |-> r.method,
                  body |-> r._body,
                  cookies |-> r.cookies,
                  meta |-> meta(r),
                  flags |-> r.flags,
                  encoding |-> r._encoding,
                  priority |-> r.priority,
                  dont_filter |-> r.dont_filter,
                  cb_kwargs |-> cb_kwargs(r),
                  _class |-> IF r.cls # "Request" THEN ClassPath(r.cls) ELSE ""])

\* The arguments from_dict calls the class with.
FromDictArgs(d, cb, eb) ==
    [url |-> d.url, callback |-> cb, errback |-> eb, method |-> d.method,
     headers |-> d.headers, body |-> d.body, cookies |-> d.cookies,
     meta |-> d.meta, encoding |-> d._encoding, priority |-> d.priority,
     dont_filter |-> d.dont_filter, flags |-> d.flags, cb_kwargs |-> d.cb_kwargs]

\* A bug: from_dict that builds cls whatever _class says.
Request_from_dict_NoClass(cls, d, spider) ==
    LET cb == IF d.callback # "None" /\ spider # "None"
              THEN Request_get_method(spider, d.callback) ELSE Ret(NoCallable)
        eb == IF d.errback # "None" /\ spider # "None"
              THEN Request_get_method(spider, d.errback) ELSE Ret(NoCallable)
    IN  IF cb.kind = "raise" THEN cb
        ELSE IF eb.kind = "raise" THEN eb
        ELSE Ret(Request_init(cls, FromDictArgs(d, cb.val, eb.val)))

\* cls.from_dict(d, spider)
Request_from_dict(cls, d, spider) ==
    LET cb == IF d.callback # "None" /\ spider # "None"
              THEN Request_get_method(spider, d.callback) ELSE Ret(NoCallable)
        eb == IF d.errback # "None" /\ spider # "None"
              THEN Request_get_method(spider, d.errback) ELSE Ret(NoCallable)
        request_cls == IF d._class # "" THEN load_object(d._class) ELSE cls
    IN  IF cb.kind = "raise" THEN cb
        ELSE IF eb.kind = "raise" THEN eb
        ELSE Ret(Request_init(request_cls, FromDictArgs(d, cb.val, eb.val)))

\* The arguments requests are made with: every argument left out or given,
\* a URL, a method, a body and headers that the constructor rewrites, a
\* callback that is a method of the spider, of another object of the
\* spider's class, of an object of another class, or no method at all.
Callbacks == {NoCallable, Callable(Spider, "parse"), Callable("other", "parse"),
              Callable("helper", "handle"), Callable("", "lambda")}
Errbacks == {NoCallable, Callable(Spider, "on_error"), Callable("helper", "handle")}
Options ==
    { [cookies |-> "None", flags |-> "None", encoding |-> "utf-8", priority |-> 0,
       dont_filter |-> FALSE, cb_kwargs |-> "None", body |-> "None", headers |-> "None"],
      [cookies |-> "{}", flags |-> "[]", encoding |-> "utf-8", priority |-> 0,
       dont_filter |-> FALSE, cb_kwargs |-> "{}", body |-> "b''", headers |-> "{}"],
      [cookies |-> "{'k': 'v'}", flags |-> "['cached']", encoding |-> "latin1", priority |-> 1,
       dont_filter |-> TRUE, cb_kwargs |-> "{'page': 2}", body |-> "'text'",
       headers |-> "{'accept': 'a'}"] }
RequestArgs ==
    { [url |-> url, callback |-> cb, errback |-> eb, method |-> m,
       headers |-> o.headers, body |-> o.body, cookies |-> o.cookies,
       meta |-> mt, encoding |-> o.encoding, priority |-> o.priority,
       dont_filter |-> o.dont_filter, flags |-> o.flags, cb_kwargs |-> o.cb_kwargs] :
      url \in {"http://x", "http://x/a b", "http://x/#!a"},
      cb \in Callbacks, eb \in Errbacks, m \in {"GET", "post"},
      mt \in {"None", "{}", "{'depth': 1}"}, o \in Options }

InitRequest ==
    /\ InitQueues
    /\ cx = NoCodecRun
    /\ rq \in {[phase |-> "r", r |-> Request_init(cls, a), d |-> NoCall, r2 |-> NoCall] :
                  cls \in {"Request", "PageRequest"}, a \in RequestArgs}
    /\ px = NoProxyRun
    /\ settings = [DNSCACHE_ENABLED |-> TRUE, DNSCACHE_SIZE |-> DefaultLimit, DNS_TIMEOUT |-> 60]
    /\ InitDns

\* d = r.to_dict(spider)
ToDict ==
    /\ rq.phase = "r"
    /\ rq' = [rq EXCEPT !.phase = "d", !.d = Request_to_dict(rq.r, Spider)]
    /\ UNCHANGED <<vars, mk, cx, px, dnsVars>>

\* Request.from_dict(d, spider), for a dict that to_dict returned
FromDict ==
    /\ rq.phase = "d"
    /\ rq.d.kind = "return"
    /\ rq' = [rq EXCEPT !.phase = "r2",
                         !.r2 = Request_from_dict("Request", rq.d.val, Spider)]
    /\ UNCHANGED <<vars, mk, cx, px, dnsVars>>

NextRequest == ToDict \/ FromDict

SpecRequest == InitRequest /\ [][NextRequest]_<<vars, others>>

\* ------------------------------------------------ CachingThreadedResolver
\* LocalCache: a dict that remembers the order of insertion and, with a limit
\* that is not 0, drops its oldest entries to stay within the limit.
cache_has(c, k) == \E i \in 1..Len(c.data) : c.data[i].k = k
cache_get(c, k) == c.data[CHOOSE i \in 1..Len(c.data) : c.data[i].k = k].v

RECURSIVE popitems(_, _)
popitems(data, limit) ==
    IF Len(data) >= limit /\ data # <<>> THEN popitems(Tail(data), limit) ELSE data

LocalCache_setitem(c, k, v) ==
    LET kept == IF c.limit # 0 THEN popitems(c.data, c.limit) ELSE c.data
    IN  [c EXCEPT !.data =
            IF \E i \in 1..Len(kept) : kept[i].k = k
            THEN [i \in 1..Len(kept) |-> IF kept[i].k = k THEN [k |-> k, v |-> v] ELSE kept[i]]
            ELSE Append(kept, [k |-> k, v |-> v])]

\* The bounds of the resolver's model: lookups under way at a time.
MaxLookups == 2
Names == {"a.example", "b.example"}
Addresses == {"192.0.2.1", "192.0.2.2"}

\* A lookup of the underlying ThreadedResolver and the callbacks on its
\* Deferred.
Lookup(name, timeout, callbacks) == [name |-> name, timeout |-> timeout, callbacks |-> callbacks]

\* A bug: the result is cached whatever the limit of the cache.
getHostByName_NoLimitTest(self, cache, pending, name, timeout) ==
    IF cache_has(cache, name)
    THEN [d |-> "succeed", result |-> cache_get(cache, name), lookups |-> pending]
    ELSE [d |-> "waiting", result |-> "",
          lookups |-> Append(pending, Lookup(name, <<self.timeout>>, <<"_cache_result">>))]

\* CachingThreadedResolver.getHostByName(name, timeout): the Deferred it
\* returns (fired with a result, or waiting) and the lookups under way.
getHostByName(self, cache, pending, name, timeout) ==
    IF cache_has(cache, name)
    THEN [d |-> "succeed", result |-> cache_get(cache, name), lookups |-> pending]
    ELSE [d |-> "waiting", result |-> "",
          lookups |-> Append(pending,
              Lookup(name, <<self.timeout>>,
                     IF cache.limit # 0 THEN <<"_cache_result">> ELSE <<>>))]

\* CachingThreadedResolver.from_crawler(crawler, reactor) and __init__
from_crawler ==
    /\ ~resolver.built
    /\ LET cache_size == IF settings.DNSCACHE_ENABLED THEN settings.DNSCACHE_SIZE ELSE 0
       IN  dnscache' = [dnscache EXCEPT !.limit = cache_size]
    /\ resolver' = [built |-> TRUE, timeout |-> settings.DNS_TIMEOUT]
    /\ dnsOp' = [NoDnsOp EXCEPT !.op = "from_crawler"]
    /\ UNCHANGED <<vars, mk, cx, rq, px, settings, lookups>>

\* resolver.getHostByName(name, timeout)
GetHostByName(name, timeout) ==
    /\ resolver.built
    /\ LET o == getHostByName(resolver, dnscache, lookups, name, timeout)
       IN  /\ Len(o.lookups) <= MaxLookups
           /\ lookups' = o.lookups
           /\ dnsOp' = [op |-> "getHostByName", name |-> name, d |-> o.d, result |-> o.result]
    /\ UNCHANGED <<vars, mk, cx, rq, px, settings, dnscache, resolver>>

\* The i-th lookup under way succeeds with an address: the callbacks of its
\* Deferred run, _cache_result among them if it was added.
LookupSucceeds(i, address) ==
    /\ i \in 1..Len(lookups)
    /\ dnscache' = IF lookups[i].callbacks = <<"_cache_result">>
                   THEN LocalCache_setitem(dnscache, lookups[i].name, address)
                   ELSE dnscache
    /\ lookups' = Without(lookups, i)
    /\ dnsOp' = [op |-> "succeeded", name |-> lookups[i].name, d |-> "succeed", result |-> address]
    /\ UNCHANGED <<vars, mk, cx, rq, px, settings, resolver>>

\* The i-th lookup under way fails: the callbacks are passed over.
LookupFails(i) ==
    /\ i \in 1..Len(lookups)
    /\ lookups' = Without(lookups, i)
    /\ dnsOp' = [op |-> "failed", name |-> lookups[i].name, d |-> "fail", result |-> ""]
    /\ UNCHANGED <<vars, mk, cx, rq, px, settings, dnscache, resolver>>

InitThreaded ==
    /\ InitQueues
    /\ cx = NoCodecRun
    /\ rq = NoRequestRun
    /\ px = NoProxyRun
    /\ settings \in [DNSCACHE_ENABLED : BOOLEAN, DNSCACHE_SIZE : {1, 2}, DNS_TIMEOUT : {10, 60}]
    /\ InitDns

NextThreaded ==
    \/ from_crawler
    \/ \E name \in Names, timeout \in {<<>>, <<1, 3, 11, 45>>} : GetHostByName(name, timeout)
    \/ \E i \in 1..MaxLookups, address \in Addresses : LookupSucceeds(i, address)
    \/ \E i \in 1..MaxLookups : LookupFails(i)

SpecThreaded == InitThreaded /\ [][NextThreaded]_<<vars, others>>

\* ------------------------------------------------ CachingHostnameResolver
\* The bound of the model: addresses the original resolver reports for one
\* resolution.
MaxAddresses == 2

\* Resolutions of the original resolver under way at a time.
MaxResolutions == MaxLookups - 1

\* A call of a method of a resolution receiver.
Event(ev, arg) == [ev |-> ev, arg |-> arg]

\* for addr in addresses: resolutionReceiver.addressResolved(addr)
RECURSIVE ForEachAddressResolved(_)
ForEachAddressResolved(addresses) ==
    IF addresses = <<>> THEN <<>>
    ELSE <<Event("addressResolved", Head(addresses))>> \o ForEachAddressResolved(Tail(addresses))

\* _CachingResolutionReceiver(resolutionReceiver, hostName): its attributes,
\* and in recv the calls made on the receiver it wraps.
CachingResolutionReceiver(hostName) ==
    [hostName |-> hostName, addresses |-> <<>>, resolution |-> "", recv |-> <<>>]

\* _CachingResolutionReceiver.resolutionBegan
resolutionBegan(r, resolution) ==
    [r EXCEPT !.recv = Append(@, Event("resolutionBegan", resolution)),
              !.resolution = resolution]

\* _CachingResolutionReceiver.addressResolved
addressResolved(r, address) ==
    [r EXCEPT !.recv = Append(@, Event("addressResolved", address)),
              !.addresses = Append(@, address)]

\* A bug: resolutionComplete without the test of self.addresses.
resolutionComplete_NoTest(r, cache) ==
    [r |-> [r EXCEPT !.recv = Append(@, Event("resolutionComplete", ""))],
     cache |-> LocalCache_setitem(cache, r.hostName, r.addresses)]

\* _CachingResolutionReceiver.resolutionComplete: the receiver and the cache
\* after it.
resolutionComplete(r, cache) ==
    [r |-> [r EXCEPT !.recv = Append(@, Event("resolutionComplete", ""))],
     cache |-> IF r.addresses # <<>>
               THEN LocalCache_setitem(cache, r.hostName, r.addresses)
               ELSE cache]

\* A bug: a cached name answered without resolutionComplete.
resolveHostName_NoComplete(cache, pending, hostName) ==
    IF cache_has(cache, hostName)
    THEN [d |-> "hit",
          events |-> <<Event("resolutionBegan", hostName)>>
                     \o ForEachAddressResolved(cache_get(cache, hostName)),
          lookups |-> pending]
    ELSE [d |-> "delegated", events |-> <<>>,
          lookups |-> Append(pending, CachingResolutionReceiver(hostName))]

\* CachingHostnameResolver.resolveHostName(resolutionReceiver, hostName):
\* the calls it makes on resolutionReceiver, and the resolutions of the
\* original resolver under way, each with the receiver it was given.
resolveHostName(cache, pending, hostName) ==
    IF cache_has(cache, hostName)
    THEN [d |-> "hit",
          events |-> <<Event("resolutionBegan", hostName)>>
                     \o ForEachAddressResolved(cache_get(cache, hostName))
                     \o <<Event("resolutionComplete", "")>>,
          lookups |-> pending]
    ELSE [d |-> "delegated", events |-> <<>>,
          lookups |-> Append(pending, CachingResolutionReceiver(hostName))]

\* CachingHostnameResolver.from_crawler(crawler, reactor) and __init__
CachingHostnameResolver_from_crawler ==
    /\ ~resolver.built
    /\ LET cache_size == IF settings.DNSCACHE_ENABLED THEN settings.DNSCACHE_SIZE ELSE 0
       IN  dnscache' = [dnscache EXCEPT !.limit = cache_size]
    /\ resolver' = [built |-> TRUE, timeout |-> 0]
    /\ dnsOp' = [NoDnsOp EXCEPT !.op = "from_crawler"]
    /\ UNCHANGED <<vars, mk, cx, rq, px, settings, lookups>>

\* resolver.resolveHostName(receiver, hostName)
ResolveHostName(hostName) ==
    /\ resolver.built
    /\ LET o == resolveHostName(dnscache, lookups, hostName)
       IN  /\ Len(o.lookups) <= MaxResolutions
           /\ lookups' = o.lookups
           /\ dnsOp' = [op |-> "resolveHostName", name |-> hostName, d |-> o.d,
                        result |-> o.events]
    /\ UNCHANGED <<vars, mk, cx, rq, px, settings, dnscache, resolver>>

\* The original resolver begins the i-th resolution under way.
ResolutionBegan(i) ==
    /\ i \in 1..Len(lookups)
    /\ lookups[i].resolution = ""
    /\ lookups' = [lookups EXCEPT ![i] = resolutionBegan(@, @.hostName)]
    /\ dnsOp' = [op |-> "resolutionBegan", name |-> lookups[i].hostName, d |-> "",
                 result |-> lookups'[i].recv]
    /\ UNCHANGED <<vars, mk, cx, rq, px, settings, dnscache, resolver>>

\* The original resolver reports an address of the i-th resolution.
AddressResolved(i, address) ==
    /\ i \in 1..Len(lookups)
    /\ lookups[i].resolution # ""
    /\ Len(lookups[i].addresses) < MaxAddresses
    /\ lookups' = [lookups EXCEPT ![i] = addressResolved(@, address)]
    /\ dnsOp' = [op |-> "addressResolved", name |-> lookups[i].hostName, d |-> "",
                 result |-> lookups'[i].recv]
    /\ UNCHANGED <<vars, mk, cx, rq, px, settings, dnscache, resolver>>

\* The original resolver ends the i-th resolution.
ResolutionComplete(i) ==
    /\ i \in 1..Len(lookups)
    /\ lookups[i].resolution # ""
    /\ LET o == resolutionComplete(lookups[i], dnscache)
       IN  /\ dnscache' = o.cache
           /\ dnsOp' = [op |-> "resolutionComplete", name |-> lookups[i].hostName,
                        d |-> "", result |-> o.r.recv]
    /\ lookups' = Without(lookups, i)
    /\ UNCHANGED <<vars, mk, cx, rq, px, settings, resolver>>

InitHostname ==
    /\ InitQueues
    /\ cx = NoCodecRun
    /\ rq = NoRequestRun
    /\ px = NoProxyRun
    /\ settings \in [DNSCACHE_ENABLED : BOOLEAN, DNSCACHE_SIZE : {1, 2}, DNS_TIMEOUT : {60}]
    /\ InitDns

NextHostname ==
    \/ CachingHostnameResolver_from_crawler
    \/ \E hostName \in Names : ResolveHostName(hostName)
    \/ \E i \in 1..MaxLookups : ResolutionBegan(i)
    \/ \E i \in 1..MaxLookups, address \in Addresses : AddressResolved(i, address)
    \/ \E i \in 1..MaxLookups : ResolutionComplete(i)

SpecHostname == InitHostname /\ [][NextHostname]_<<vars, others>>

\* ------------------------------------------- _with_mkdir, thread by thread
\* The constructor of a disk queue class, one system call at a time:
\* os.path.exists(dirname), then os.makedirs(dirname, exist_ok=True), which
\* makes the missing parent of dirname and then dirname itself, then the
\* constructor of the store.
path_split_head(name) == "jobdir"

\* The path a thread constructs its queue at.
PathOf(t) == "jobdir/requests.queue/" \o t

\* The exist_ok argument of the os.makedirs call.
exist_ok_Strict == FALSE
exist_ok == TRUE

\* cls(path) is called.
Construct(t) ==
    /\ mk[t].pc = "idle"
    /\ mk' = [mk EXCEPT ![t] = [pc |-> "exists", res |-> "none", lost |-> FALSE]]
    /\ UNCHANGED <<vars, cx, rq, px, dnsVars>>

\* if not os.path.exists(dirname)
PathExists(t) ==
    /\ mk[t].pc = "exists"
    /\ mk' = [mk EXCEPT ![t].pc = IF Dirname(PathOf(t)) \in dirs THEN "init" ELSE "head"]
    /\ UNCHANGED <<vars, cx, rq, px, dnsVars>>

\* os.makedirs: if head and tail and not path.exists(head)
MakedirsHeadExists(t) ==
    /\ mk[t].pc = "head"
    /\ mk' = [mk EXCEPT ![t].pc =
           IF path_split_head(Dirname(PathOf(t))) \in dirs THEN "mkdir" ELSE "mkhead"]
    /\ UNCHANGED <<vars, cx, rq, px, dnsVars>>

\* os.makedirs: makedirs(head, exist_ok=exist_ok), FileExistsError passed over
MakedirsHead(t) ==
    /\ mk[t].pc = "mkhead"
    /\ dirs' = dirs \cup {path_split_head(Dirname(PathOf(t)))}
    /\ mk' = [mk EXCEPT ![t].pc = "mkdir"]
    /\ UNCHANGED <<handles, disk, hasPeek, lastOp, lastRes, glog, run, cx, rq, px, dnsVars>>

\* os.makedirs: mkdir(name, mode), and for the OSError of a name that exists:
\* if not exist_ok or not path.isdir(name): raise
MakedirsMkdir(t) ==
    /\ mk[t].pc = "mkdir"
    /\ dirs' = dirs \cup {Dirname(PathOf(t))}
    /\ mk' = [mk EXCEPT ![t] =
           IF Dirname(PathOf(t)) \in dirs /\ ~exist_ok
           THEN [pc |-> "failed", res |-> "FileExistsError", lost |-> TRUE]
           ELSE [pc |-> "init", res |-> "none", lost |-> Dirname(PathOf(t)) \in dirs]]
    /\ UNCHANGED <<handles, disk, hasPeek, lastOp, lastRes, glog, run, cx, rq, px, dnsVars>>

\* super().__init__(path, *args, **kwargs): the store opens its path.
StoreInit(t) ==
    /\ mk[t].pc = "init"
    /\ mk' = [mk EXCEPT ![t].pc = "done",
                         ![t].res = IF Dirname(PathOf(t)) \in dirs THEN "opened"
                                    ELSE "FileNotFoundError"]
    /\ UNCHANGED <<vars, cx, rq, px, dnsVars>>

\* The queue is closed and the thread is free to construct another.
Release(t) ==
    /\ mk[t].pc \in {"done", "failed"}
    /\ mk' = [mk EXCEPT ![t] = NoThread]
    /\ UNCHANGED <<vars, cx, rq, px, dnsVars>>

NextMkdir ==
    \E t \in Threads :
        \/ Construct(t)
        \/ PathExists(t)
        \/ MakedirsHeadExists(t)
        \/ MakedirsHead(t)
        \/ MakedirsMkdir(t)
        \/ StoreInit(t)
        \/ Release(t)

SpecMkdir == Init /\ [][NextMkdir]_<<vars, others>>

\* ---------------------------------------------------- HttpProxyMiddleware
\* A proxy URL by its parts, "" for a part it does not have: the scheme, the
\* slashes before the authority ("//", or "/" for a URL with no authority),
\* user and password, and host:port.
Url(scheme, slashes, user, password, hostport) ==
    [scheme |-> scheme, slashes |-> slashes, user |-> user, password |-> password,
     hostport |-> hostport]

\* What a call of the middleware gives: a value, or ValueError raised.
Got(creds, proxy_url) == [ok |-> TRUE, creds |-> creds, proxy_url |-> proxy_url]
ValueError == [ok |-> FALSE]

\* creds = None
NoCreds == <<>>

\* _parse_proxy(url) of urllib.request: (proxy_type, user, password, hostport)
parse_proxy(url) ==
    IF url.slashes = "/" THEN ValueError
    ELSE [ok |-> TRUE, proxy_type |-> url.scheme, user |-> url.user,
          password |-> url.password, hostport |-> url.hostport]

\* urlunparse((scheme, netloc, '', '', '', ''))
urlunparse(scheme, netloc) == Url(scheme, "//", "", "", netloc)

\* HttpProxyMiddleware._basic_auth_header: base64 of user:password, kept as
\* the pair it encodes.
basic_auth_header(username, password) == <<username, password>>

\* b'Basic ' + creds
Basic(creds) == [scheme |-> "Basic", creds |-> creds]

\* HttpProxyMiddleware._get_proxy(url, orig_type)
get_proxy(url, orig_type) ==
    LET p == parse_proxy(url)
    IN  IF ~p.ok THEN ValueError
        ELSE Got(IF p.user # "" THEN basic_auth_header(p.user, p.password) ELSE NoCreds,
                 urlunparse(IF p.proxy_type # "" THEN p.proxy_type ELSE orig_type,
                            p.hostport))

\* request.meta and request.headers by the one key of each the middleware
\* reads and writes.
NoMeta == [keys |-> {}]
MetaProxy(v) == [keys |-> {"proxy"}, proxy |-> v]
NoHeaders == [keys |-> {}]
ProxyAuthorization(v) == [keys |-> {"Proxy-Authorization"}, value |-> v]

\* A header present with the empty value b''.
EmptyBytes == [scheme |-> "", creds |-> NoCreds]

\* bool(request.headers.get('Proxy-Authorization'))
HasProxyAuthorization(headers) ==
    "Proxy-Authorization" \in headers.keys /\ headers.value # EmptyBytes

\* The request by what process_request looks at.
ProxyRequest(scheme, hostname, m, headers) ==
    [scheme |-> scheme, hostname |-> hostname, meta |-> m, headers |-> headers]

\* HttpProxyMiddleware.__init__: self.proxies from getproxies(), an entry
\* whose URL cannot be parsed left out.
HttpProxyMiddleware_init(getproxies) ==
    [type_ \in {t \in DOMAIN getproxies : get_proxy(getproxies[t], t).ok} |->
        get_proxy(getproxies[type_], type_)]

\* HttpProxyMiddleware._set_proxy(request, scheme)
set_proxy(proxies, request, scheme) ==
    LET creds == proxies[scheme].creds
        proxy == proxies[scheme].proxy_url
    IN  [request EXCEPT !.meta = MetaProxy(proxy),
                        !.headers = IF creds # NoCreds
                                    THEN ProxyAuthorization(Basic(creds))
                                    ELSE @]

\* A bug: the proxy of the environment given to a request that has a proxy.
process_request_EnvFirst(proxies, bypass, request) ==
    IF request.scheme \in DOMAIN proxies
    THEN [ok |-> TRUE, request |-> set_proxy(proxies, request, request.scheme)]
    ELSE [ok |-> TRUE, request |-> request]

\* A bug: the credentials of the URL written over the header of the request.
process_request_Overwrite(proxies, bypass, request) ==
    IF "proxy" \in request.meta.keys /\ request.meta.proxy # None
    THEN LET g == get_proxy(request.meta.proxy, "")
         IN  IF ~g.ok THEN [ok |-> FALSE, request |-> request]
             ELSE [ok |-> TRUE,
                   request |-> [request EXCEPT
                       !.meta = MetaProxy(g.proxy_url),
                       !.headers = IF g.creds # NoCreds
                                   THEN ProxyAuthorization(Basic(g.creds))
                                   ELSE @]]
    ELSE [ok |-> TRUE, request |-> request]

\* HttpProxyMiddleware.process_request(request, spider): whether it returned
\* (None) or raised ValueError, and the request after it.  bypass is the set
\* of host names proxy_bypass is true of.
process_request(proxies, bypass, request) ==
    IF "proxy" \in request.meta.keys
    THEN IF request.meta.proxy = None
         THEN [ok |-> TRUE, request |-> request]
         ELSE LET g == get_proxy(request.meta.proxy, "")
              IN  IF ~g.ok THEN [ok |-> FALSE, request |-> request]
                  ELSE [ok |-> TRUE,
                        request |-> [request EXCEPT
                            !.meta = MetaProxy(g.proxy_url),
                            !.headers = IF g.creds # NoCreds /\ ~HasProxyAuthorization(@)
                                        THEN ProxyAuthorization(Basic(g.creds))
                                        ELSE @]]
    ELSE IF DOMAIN proxies = {}
    THEN [ok |-> TRUE, request |-> request]
    ELSE IF /\ request.scheme \in {"http", "https"}
            /\ request.hostname # ""
            /\ request.hostname \in bypass
    THEN [ok |-> TRUE, request |-> request]
    ELSE IF request.scheme \in DOMAIN proxies
    THEN [ok |-> TRUE, request |-> set_proxy(proxies, request, request.scheme)]
    ELSE [ok |-> TRUE, request |-> request]

\* The proxies of the environment (getproxies()): none, one without and one
\* with credentials, one without a scheme, one for ftp, one that cannot be
\* parsed.
Environments ==
    { <<>>,
      [http |-> Url("http", "//", "", "", "proxy:3128")],
      [http |-> Url("http", "//", "user", "pass", "proxy:3128"),
       https |-> Url("", "", "", "", "sproxy:3128")],
      [http |-> Url("http", "/", "", "", ""),
       ftp |-> Url("http", "//", "", "", "proxy:3128")] }

\* The values of request.meta['proxy'].
MetaProxies ==
    { None,
      Url("http", "//", "", "", "mine:8080"),
      Url("http", "//", "me", "secret", "mine:8080"),
      Url("http", "//", "me", "", "mine:8080"),
      Url("", "", "me", "secret", "mine:8080"),
      Url("http", "/", "", "", "") }

ProxyRequests ==
    { ProxyRequest(scheme, hostname, m, headers) :
        scheme \in {"http", "https", "ftp", "file"},
        hostname \in {"a.example", "local.example", ""},
        m \in {NoMeta} \cup {MetaProxy(v) : v \in MetaProxies},
        headers \in {NoHeaders, ProxyAuthorization(EmptyBytes),
                     ProxyAuthorization(Basic(<<"other", "word">>))} }

\* A middleware made in an environment, and a request not yet processed.
InitProxy ==
    /\ InitQueues
    /\ cx = NoCodecRun
    /\ rq = NoRequestRun
    /\ settings = [DNSCACHE_ENABLED |-> TRUE, DNSCACHE_SIZE |-> DefaultLimit, DNS_TIMEOUT |-> 60]
    /\ InitDns
    /\ px \in {[phase |-> "made", proxies |-> HttpProxyMiddleware_init(env),
                bypass |-> bypass, given |-> request, request |-> request,
                calls |-> 0, ok |-> TRUE] :
                  env \in Environments, bypass \in {{}, {"local.example"}},
                  request \in ProxyRequests}

\* mw.process_request(request, spider), a first and a second time.
ProcessRequest ==
    /\ px.phase \in {"made", "processed"}
    /\ px.ok
    /\ px.calls < 2
    /\ LET o == process_request(px.proxies, px.bypass, px.request)
       IN  px' = [px EXCEPT !.phase = "processed", !.request = o.request,
                            !.calls = @ + 1, !.ok = o.ok]
    /\ UNCHANGED <<vars, mk, cx, rq, dnsVars>>

NextProxy == ProcessRequest

SpecProxy == InitProxy /\ [][NextProxy]_<<vars, others>>

\* ------------------------------------------------------------------ claims
IsOpen(h) == handles[h].st = "open"
Cls(h) == handles[h].cls

\* The outcomes of n pops of a queue that holds V (in push order) and is
\* popped in the given order: the items, then None.
Expected(order, V, n) ==
    [i \in 1..n |->
        IF i > Len(V) THEN Ret(None)
        ELSE IF order = "fifo" THEN Ret(V[i])
        ELSE Ret(V[Len(V) + 1 - i])]

\* C1: the values V pushed to a freshly opened FIFO queue (memory or disk,
\* pickle or marshal) with no pop in between come back from |V| pops in push
\* order, and the pop after them returns None.
C1_FifoOrder ==
    \A h \in AllHandles :
        (IsOpen(h) /\ Promised(Cls(h)) = "fifo" /\ run[h].phase = "drain")
        => run[h].outs = Expected("fifo", run[h].V, Len(run[h].outs))

C1_Witness ==
    /\ IsOpen("h1") /\ Cls("h1") = "PickleFifoDiskQueue"
    /\ run["h1"].phase = "drain"
    /\ run["h1"].V = <<ReqX, ReqY>>
    /\ run["h1"].outs = <<Ret(ReqX), Ret(ReqY), Ret(None)>>

\* C2: the values V pushed to a freshly opened LIFO queue (memory or disk,
\* either codec) with no pop in between come back from |V| pops in reverse
\* push order, and the pop after them returns None.
C2_LifoOrder ==
    \A h \in AllHandles :
        (IsOpen(h) /\ Promised(Cls(h)) = "lifo" /\ run[h].phase = "drain")
        => run[h].outs = Expected("lifo", run[h].V, Len(run[h].outs))

C2_Witness ==
    /\ IsOpen("h1") /\ Cls("h1") = "MarshalLifoDiskQueue"
    /\ run["h1"].phase = "drain"
    /\ run["h1"].V = <<ReqX, ReqY, ReqX>>
    /\ run["h1"].outs = <<Ret(ReqX), Ret(ReqY), Ret(ReqX), Ret(None)>>

\* A step that is the call of a method on the queue of h.
PushStep(h) == lastOp'.op = "push" /\ lastOp'.h = h /\ vars' # vars
PopStep(h) == lastOp' = Call("pop", h, None) /\ vars' # vars
PeekStep(h) == lastOp' = Call("peek", h, None) /\ vars' # vars

\* The entry of the push log a pop of h is due: the oldest of a FIFO queue,
\* the newest of a LIFO queue.
NextUp(h) ==
    IF Promised(Cls(h)) = "fifo" THEN Head(glog[StoreOf(h)])
    ELSE Last(glog[StoreOf(h)])

\* The store and the queue objects are as they were.
StoreUnchanged == handles' = handles /\ disk' = disk /\ dirs' = dirs

\* C3: after any interleaving of pushes and pops a pop returns the oldest
\* (FIFO) or newest (LIFO) item pushed to the queue and not yet popped, and
\* a push keeps the items already stored in their order.
C3_Interleaved ==
    [][\A h \in AllHandles :
        /\ (/\ PopStep(h)
            /\ glog[StoreOf(h)] # <<>>
            /\ NextUp(h).cls = Cls(h))
           => lastRes' = Ret(NextUp(h).item)
        /\ PushStep(h)
           => \/ Items(h)' = Items(h)
              \/ \E i \in 1..Len(Items(h)') : Without(Items(h)', i) = Items(h)
      ]_vars

C3_Witness ==
    /\ IsOpen("h1") /\ Cls("h1") = "MarshalLifoDiskQueue"
    /\ lastOp = Call("pop", "h1", None)
    /\ lastRes = Ret(ReqY)
    /\ run["h1"].phase = "off"
    /\ Len(Items("h1")) = 1
    /\ glog[StoreOf("h1")] = <<[item |-> ReqX, cls |-> "MarshalLifoDiskQueue"]>>

\* C4: a disk queue opened at a path that an earlier queue of the same class
\* wrote and closed holds exactly the items pushed and not yet popped: its
\* pops return them in the order of the class, and then None.
C4_Durable ==
    \A h \in AllHandles :
        (IsOpen(h) /\ run[h].phase = "resumed")
        => run[h].outs = Expected(Promised(Cls(h)), run[h].V, Len(run[h].outs))

C4_Witness ==
    /\ IsOpen("h1") /\ Cls("h1") = "PickleLifoDiskQueue"
    /\ run["h1"].phase = "resumed"
    /\ run["h1"].V = <<ReqX, ReqY>>
    /\ run["h1"].outs = <<Ret(ReqY), Ret(ReqX), Ret(None)>>

\* C5: a pop of an empty queue returns None, raises nothing and changes
\* neither the queue nor its store.
C5_EmptyPop ==
    [][\A h \in AllHandles :
        (PopStep(h) /\ Items(h) = <<>>)
        => (lastRes' = Ret(None) /\ StoreUnchanged)
      ]_vars

C5_Witness ==
    /\ IsOpen("h1") /\ Cls("h1") = "MarshalFifoDiskQueue"
    /\ lastOp = Call("pop", "h1", None)
    /\ lastRes = Ret(None)
    /\ run["h1"].phase = "drain" /\ run["h1"].V = <<>>
    /\ Items("h1") = <<>>

\* The request cannot be converted: a callback or errback is a callable that
\* is not a method of the spider.
NotConvertible(r) ==
    r.cb \notin SpiderMethods \cup {"None"} \/ r.eb \notin SpiderMethods \cup {"None"}

\* C6: a push of a request that cannot be converted, or of a value the
\* pickle codec cannot encode, raises ValueError (from the codec's error for
\* pickle) and leaves the queue and its store as they were.
C6_AtomicPushFailure ==
    [][\A h \in AllHandles :
        LET x == lastOp'.arg
        IN  /\ (PushStep(h) /\ Cls(h) \in RequestDiskClasses /\ NotConvertible(x))
               => (lastRes' = Raise("ValueError", "") /\ StoreUnchanged)
            /\ (/\ PushStep(h)
                /\ ClassDef(Cls(h)).ser = "pickle"
                /\ ~(Cls(h) \in RequestDiskClasses /\ NotConvertible(x))
                /\ x.pl = "live")
               => (lastRes' = Raise("ValueError", "TypeError") /\ StoreUnchanged)
      ]_vars

C6_Witness ==
    /\ IsOpen("h1") /\ Cls("h1") = "PickleFifoDiskQueue"
    /\ lastOp = Call("push", "h1", ReqLive)
    /\ lastRes = Raise("ValueError", "TypeError")
    /\ Len(Items("h1")) = 2

\* C7: a pop of a queue that holds an item returns that item or raises; it
\* never returns None.
C7_EmptyOnlyWhenEmpty ==
    [][\A h \in AllHandles :
        (PopStep(h) /\ Items(h) # <<>>) => lastRes' # Ret(None)
      ]_vars

\* C8: with a store that has peek, peek leaves the queue and its store as
\* they were and returns what the next pop returns (None for an empty
\* queue).
C8_PeekNonDestructive ==
    [][\A h \in AllHandles :
        /\ (PeekStep(h) /\ hasPeek)
           => /\ StoreUnchanged
              /\ lastRes'.exc # "NotImplementedError"
              /\ Items(h) = <<>> => lastRes' = Ret(None)
        /\ (PopStep(h) /\ hasPeek /\ lastOp = Call("peek", h, None))
           => lastRes' = lastRes
      ]_vars

C8_Witness ==
    /\ hasPeek
    /\ IsOpen("h1") /\ Cls("h1") = "PickleLifoDiskQueue"
    /\ lastOp = Call("peek", "h1", None)
    /\ lastRes = Ret(ReqY)
    /\ Len(Items("h1")) = 2

\* C9: with a store that has no peek, every peek (memory queue, serializing
\* queue, request queue) raises NotImplementedError from the AttributeError
\* and leaves the queue and its store as they were.
C9_PeekUnsupported ==
    [][\A h \in AllHandles :
        (PeekStep(h) /\ ~hasPeek)
        => (lastRes' = Raise("NotImplementedError", "AttributeError") /\ StoreUnchanged)
      ]_vars

C9_Witness ==
    /\ ~hasPeek
    /\ IsOpen("h1") /\ Cls("h1") = "FifoMemoryQueue"
    /\ lastOp = Call("peek", "h1", None)
    /\ lastRes = Raise("NotImplementedError", "AttributeError")
    /\ Len(Items("h1")) = 2

\* What pop or peek of a disk request queue returns for the outcome o of the
\* serializing queue, by the composition rule: None for None, the request
\* of the record otherwise.
Adapted(o) ==
    IF o.kind = "raise" \/ o = Ret(None) THEN o
    ELSE request_from_dict(o.val, Spider)

\* C10: on a disk request queue push(item) is the serializing queue's push
\* of request_to_dict(item), pop and peek return request_from_dict(r) for the
\* record r the serializing queue yields and None when it yields None, and
\* the store never holds a request.
C10_AdapterComposition ==
    [][\A h \in AllHandles :
        /\ (PushStep(h) /\ Cls(h) \in RequestDiskClasses)
           => LET d == request_to_dict(lastOp'.arg, Spider)
                  o == SerializationQueue_push(Cls(h), Items(h), d.val)
              IN  IF d.kind = "raise"
                  THEN lastRes' = d /\ Items(h)' = Items(h)
                  ELSE lastRes' = o.res /\ Items(h)' = o.items
        /\ (PopStep(h) /\ Cls(h) \in RequestDiskClasses)
           => LET o == SerializationQueue_pop(Cls(h), Items(h))
              IN  lastRes' = Adapted(o.res) /\ Items(h)' = o.items
        /\ (PeekStep(h) /\ Cls(h) \in RequestDiskClasses)
           => LET o == SerializationQueue_peek(Cls(h), Items(h), hasPeek)
              IN  lastRes' = Adapted(o.res) /\ Items(h)' = o.items
        /\ (IsOpen(h) /\ Cls(h) \in RequestDiskClasses)
           => \A i \in 1..Len(Items(h)) :
                  Items(h)[i].t = "bytes" /\ Items(h)[i].body.t # "Request"
      ]_vars

\* The kind of error push raises for a value it cannot serialize
\* (_pickle_serialize; marshal.dumps raises the same).
SerializationError == "ValueError"

C12_DistinctErrors ==
    [][\A h \in AllHandles :
        ((PopStep(h) \/ PeekStep(h))
            /\ lastRes'.kind = "raise" /\ lastRes'.exc # "NotImplementedError")
        => lastRes'.exc # SerializationError
      ]_vars

\* C13: however the constructors of disk queues at paths in one missing
\* directory interleave, none fails because the directory exists already, and
\* each ends with its store open.
C13_IdempotentProvisioning ==
    \A t \in Threads :
        /\ mk[t].res \in {"none", "opened"}
        /\ mk[t].pc = "done" => Dirname(PathOf(t)) \in dirs

\* A thread found the directory missing, another made it first, and the
\* thread's queue is open all the same, with a third thread under way.
C13_Witness ==
    \E t, u \in Threads :
        /\ t # u
        /\ mk[t].pc = "done" /\ mk[t].lost /\ mk[t].res = "opened"
        /\ mk[u].pc \in {"head", "mkhead", "mkdir", "init"}

\* A call on h that is not a no-op.
Step(op, h) == lastOp'.op = op /\ lastOp'.h = h /\ vars' # vars

\* C14: the constructor of a disk queue provides the parent directory before
\* the store opens the path, so no open fails for a missing directory and
\* the directory of an opened queue exists; directories are made by the
\* constructor only, never by push, pop, peek or close.
C14_ProvisioningOrder ==
    [][\A h \in AllHandles :
        /\ Step("open", h)
           => /\ lastRes'.exc # "FileNotFoundError"
              /\ handles'[h].path \in AllPaths
                 => Dirname(handles'[h].path) \in dirs'
        /\ (Step("push", h) \/ Step("pop", h) \/ Step("peek", h) \/ Step("close", h))
           => dirs' = dirs
      ]_vars

\* A LIFO disk queue, whose store does not make directories, was opened
\* where no directory was and has taken a push.
C14_Witness ==
    /\ IsOpen("h1") /\ Cls("h1") = "PickleLifoDiskQueue"
    /\ lastOp.op = "push" /\ Items("h1") # <<>>
    /\ dirs = {Dirname(handles["h1"].path)}
    /\ Len(glog[handles["h1"].path]) = Len(Items("h1"))

\* C17: a push, pop, peek or close on one queue leaves every other queue
\* object, the items of every other memory queue and the store at every
\* other path as they were.
C17_Independent ==
    [][\A h \in AllHandles :
        (lastOp'.h = h /\ lastOp'.op \in {"push", "pop", "peek", "close"} /\ vars' # vars)
        => /\ \A g \in AllHandles \ {h} :
                  /\ handles'[g] = handles[g]
                  /\ glog'[g] = glog[g]
           /\ \A p \in AllPaths \ {handles[h].path} :
                  /\ disk'[p] = disk[p]
                  /\ glog'[p] = glog[p]
      ]_vars

\* Two memory queues hold different items, and the last call took an item
\* from the second.
C17_Witness ==
    /\ IsOpen("h1") /\ IsOpen("h2")
    /\ handles["h1"].path = "mem" /\ handles["h2"].path = "mem"
    /\ lastOp = Call("pop", "h2", None) /\ lastRes = Ret(ReqY)
    /\ Items("h1") = <<ReqX>> /\ Items("h2") = <<>>

SameRequest(a, b) ==
    /\ a.cls = b.cls
    /\ a._url = b._url /\ a.method = b.method /\ a.headers = b.headers
    /\ a._body = b._body /\ a.cookies = b.cookies /\ meta(a) = meta(b)
    /\ a.flags = b.flags /\ a._encoding = b._encoding /\ a.priority = b.priority
    /\ a.dont_filter = b.dont_filter /\ cb_kwargs(a) = cb_kwargs(b)
    /\ a.callback = b.callback /\ a.errback = b.errback

\* c is no callable, or a method of the spider itself.
OfSpider(c) ==
    \/ ~IsCallable(c)
    \/ c.self = Spider /\ \E i \in 1..Len(Members(Spider)) : Members(Spider)[i].func = c.func

\* c is no callable, or a bound method whose function is the function of a
\* method of the spider.
SharesSpiderFunction(c) ==
    \/ ~IsCallable(c)
    \/ c.self # "" /\ \E i \in 1..Len(Members(Spider)) : Members(Spider)[i].func = c.func

\* The round trip of C19: a request with callbacks of the spider comes back
\* from from_dict(to_dict) as a request of its class with equal attributes.
RoundTrips ==
    (OfSpider(rq.r.callback) /\ OfSpider(rq.r.errback))
    => /\ rq.phase = "d" => rq.d.kind = "return"
       /\ rq.phase = "r2" => rq.r2.kind = "return" /\ SameRequest(rq.r, rq.r2.val)

\* C19 as stated: the round trip holds, and to_dict raises ValueError for a
\* callable callback or errback that is not a method of the spider.
C19_Original ==
    /\ RoundTrips
    /\ (rq.phase = "d" /\ ~(OfSpider(rq.r.callback) /\ OfSpider(rq.r.errback)))
       => rq.d = Raise("ValueError", "")

\* C19, amended: the round trip holds; to_dict raises ValueError for a
\* callable callback or errback that is no bound method or whose function is
\* not the function of any method of the spider; a method of another object
\* that has the function of a spider method is stored under the name of the
\* spider's method and comes back as the spider's method.
C19_RoundTrip ==
    /\ RoundTrips
    /\ (rq.phase = "d"
          /\ ~(SharesSpiderFunction(rq.r.callback) /\ SharesSpiderFunction(rq.r.errback)))
       => rq.d = Raise("ValueError", "")
    /\ (rq.phase = "r2" /\ rq.r.callback = Callable("other", "parse"))
       => rq.r2.kind = "return" /\ rq.r2.val.callback = Callable(Spider, "parse")

\* A request of a subclass, with a URL, a method, a body and headers that
\* the constructor rewrote and with a callback and an errback of the spider,
\* has come back from from_dict.
C19_Witness ==
    /\ rq.phase = "r2"
    /\ rq.r.cls = "PageRequest"
    /\ rq.r._url = "http://x/?_escaped_fragment_=a"
    /\ rq.r.method = "POST" /\ rq.r._body = "b'text'"
    /\ rq.r.callback = Callable(Spider, "parse")
    /\ rq.r.errback = Callable(Spider, "on_error")
    /\ rq.d.val.callback = "index"
    /\ rq.r2.kind = "return"

\* C20: getHostByName of a cached name returns the cached result at once and
\* starts no lookup; of any other name it starts exactly one lookup, with the
\* resolver's timeout whatever timeout was passed; the cache gets an entry
\* only when a lookup succeeds and the limit of the cache is not 0, and the
\* entry is that lookup's name and result.
C20_GetHostByName ==
    [][/\ (dnsOp'.op = "getHostByName" /\ dnsVars' # dnsVars)
          => /\ dnscache' = dnscache
             /\ IF cache_has(dnscache, dnsOp'.name)
                THEN /\ dnsOp'.d = "succeed"
                     /\ dnsOp'.result = cache_get(dnscache, dnsOp'.name)
                     /\ lookups' = lookups
                ELSE /\ dnsOp'.d = "waiting"
                     /\ Len(lookups') = Len(lookups) + 1
                     /\ SubSeq(lookups', 1, Len(lookups)) = lookups
                     /\ Last(lookups').name = dnsOp'.name
                     /\ Last(lookups').timeout = <<resolver.timeout>>
       /\ dnscache'.data # dnscache.data
          => /\ dnsOp'.op = "succeeded"
             /\ dnscache.limit # 0
             /\ cache_has(dnscache', dnsOp'.name)
             /\ cache_get(dnscache', dnsOp'.name) = dnsOp'.result
      ]_<<vars, others>>

\* A name was looked up and cached, and a call for it was answered from the
\* cache while a lookup of the other name was under way.
C20_Witness ==
    /\ dnsOp = [op |-> "getHostByName", name |-> "a.example", d |-> "succeed",
                result |-> "192.0.2.1"]
    /\ Len(lookups) = 1 /\ lookups[1].name = "b.example"
    /\ lookups[1].timeout = <<resolver.timeout>>

\* ------------------------------------------------------------ C21 .. C23
\* A step of the hostname resolver that is the operation op.
DnsStep(op) == dnsOp'.op = op /\ dnsVars' # dnsVars

\* The addresses a receiver was told of, in the order of the calls.
RECURSIVE Delivered(_)
Delivered(recv) ==
    IF recv = <<>> THEN <<>>
    ELSE IF Head(recv).ev = "addressResolved"
         THEN <<Head(recv).arg>> \o Delivered(Tail(recv))
         ELSE Delivered(Tail(recv))

\* C21: resolveHostName for a cached host name calls, on the receiver it was
\* given, resolutionBegan once, addressResolved once per cached address in the
\* cached order and resolutionComplete once, in this order, and starts no
\* resolution of the original resolver; for a host name not cached it makes no
\* call on the receiver and starts exactly one resolution of the original
\* resolver, with a new wrapping receiver for this host name.  The cache is
\* the same after either.
C21_ResolveHostName ==
    [][DnsStep("resolveHostName") =>
        LET name == dnsOp'.name
            events == dnsOp'.result
        IN  /\ dnscache' = dnscache
            /\ IF cache_has(dnscache, name)
               THEN LET cached == cache_get(dnscache, name)
                    IN  /\ lookups' = lookups
                        /\ Len(events) = Len(cached) + 2
                        /\ events[1] = Event("resolutionBegan", name)
                        /\ \A i \in 1..Len(cached) :
                              events[i + 1] = Event("addressResolved", cached[i])
                        /\ events[Len(events)] = Event("resolutionComplete", "")
               ELSE /\ events = <<>>
                    /\ Len(lookups') = Len(lookups) + 1
                    /\ SubSeq(lookups', 1, Len(lookups)) = lookups
                    /\ lookups'[Len(lookups')].hostName = name
                    /\ lookups'[Len(lookups')].addresses = <<>>
                    /\ lookups'[Len(lookups')].recv = <<>>
    ]_<<vars, others>>

\* A cached host name with two addresses was answered from the cache, and a
\* resolution of another host name is under way.
C21_Witness ==
    /\ dnsOp.op = "resolveHostName"
    /\ dnsOp.d = "hit"
    /\ Len(dnsOp.result) = 4
    /\ dnsOp.result[2].arg # dnsOp.result[3].arg

\* A host name not cached was handed to the original resolver.
C21_WitnessMiss ==
    /\ dnsOp.op = "resolveHostName"
    /\ dnsOp.d = "delegated"
    /\ dnscache.data # <<>>
    /\ lookups # <<>>

\* C22: the wrapping receiver passes each call on to the receiver it wraps as
\* it gets it; the cache changes only at resolutionComplete and only if an
\* address was resolved, and then the host name is cached with exactly the
\* addresses delivered, in their order; a resolution that delivered no address
\* leaves the cache as it was.
C22_CachingReceiver ==
    [][/\ \A i \in 1..Len(lookups') : Delivered(lookups'[i].recv) = lookups'[i].addresses
       /\ dnscache'.data # dnscache.data => DnsStep("resolutionComplete")
       /\ \A op \in {"resolutionBegan", "addressResolved", "resolutionComplete"} :
             DnsStep(op) =>
                \E i \in 1..Len(lookups) :
                   LET r == lookups[i]
                       sent == dnsOp'.result
                   IN  /\ r.hostName = dnsOp'.name
                       /\ sent # <<>>
                       /\ SubSeq(sent, 1, Len(sent) - 1) = r.recv
                       /\ sent[Len(sent)].ev = op
                       /\ IF op = "resolutionComplete"
                          THEN /\ lookups' = Without(lookups, i)
                               /\ IF Delivered(sent) = <<>>
                                  THEN dnscache' = dnscache
                                  ELSE /\ cache_has(dnscache', r.hostName)
                                       /\ cache_get(dnscache', r.hostName) = Delivered(sent)
                          ELSE /\ lookups' = [lookups EXCEPT ![i].recv = sent,
                                                 ![i].addresses = Delivered(sent),
                                                 ![i].resolution = r.hostName]
                               /\ dnscache' = dnscache
    ]_<<vars, others>>

\* A resolution that delivered two addresses has ended and the host name is
\* cached with them.
C22_Witness ==
    /\ dnsOp.op = "resolutionComplete"
    /\ Len(Delivered(dnsOp.result)) = 2
    /\ cache_has(dnscache, dnsOp.name)
    /\ cache_get(dnscache, dnsOp.name) = Delivered(dnsOp.result)

\* C23: with the DNS cache disabled (DNSCACHE_ENABLED false) a resolver made
\* by from_crawler never has an entry in the cache, and no call of
\* getHostByName or resolveHostName is answered from the cache.
C23_CacheDisabled ==
    (resolver.built /\ ~settings.DNSCACHE_ENABLED) =>
        /\ dnscache.data = <<>>
        /\ dnsOp.op \in {"getHostByName", "resolveHostName"}
              => dnsOp.d \notin {"hit", "succeed"}


\* ------------------------------------------------------------ C24 .. C25
\* A call of process_request.
ProxyStep == px'.calls = px.calls + 1

\* The environment has a proxy for the scheme of the request, and the host of
\* an http or https request is not one to bypass.
EnvProxyApplies(request) ==
    /\ request.scheme \in DOMAIN px.proxies
    /\ ~(request.scheme \in {"http", "https"} /\ request.hostname \in px.bypass)

\* C24: process_request never gives a proxy of the environment to a request
\* whose meta has the key 'proxy': what the request has afterwards comes from
\* its own meta['proxy'] alone, and with meta['proxy'] None its meta and
\* headers are unchanged.  A request without the key gets the proxy of the
\* environment for its scheme if there is one and (for http and https) its
\* host is not bypassed, and is unchanged otherwise.
C24_EnvProxy ==
    [][ProxyStep =>
        LET r == px.request
            r2 == px'.request
        IN  IF "proxy" \in r.meta.keys
            THEN IF r.meta.proxy = None
                 THEN r2 = r /\ px'.ok
                 ELSE LET own == get_proxy(r.meta.proxy, "")
                      IN  IF own.ok
                          THEN /\ r2.meta = MetaProxy(own.proxy_url)
                               /\ r2.headers \in {r.headers, ProxyAuthorization(Basic(own.creds))}
                          ELSE r2 = r /\ ~px'.ok
            ELSE /\ px'.ok
                 /\ IF EnvProxyApplies(r)
                    THEN /\ r2.meta = MetaProxy(px.proxies[r.scheme].proxy_url)
                         /\ r2.scheme = r.scheme /\ r2.hostname = r.hostname
                    ELSE r2 = r
    ]_<<vars, others>>

\* A request with a proxy of its own and with credentials was processed by a
\* middleware that has a proxy with other credentials for its scheme.
C24_Witness ==
    /\ px.phase = "processed" /\ px.calls = 1
    /\ px.given.scheme = "http" /\ px.given.hostname = "a.example"
    /\ "http" \in DOMAIN px.proxies /\ px.proxies["http"].creds # NoCreds
    /\ px.bypass = {}
    /\ px.given.meta = MetaProxy(Url("http", "//", "me", "secret", "mine:8080"))
    /\ px.request.meta = MetaProxy(Url("http", "//", "", "", "mine:8080"))

\* A request without the key was given the proxy of the environment.
C24_WitnessEnv ==
    /\ px.phase = "processed" /\ px.calls = 1
    /\ px.given.meta = NoMeta
    /\ px.request.meta = MetaProxy(Url("https", "//", "", "", "sproxy:3128"))

\* A request to a bypassed host, and one with meta['proxy'] None, were left
\* as they were by a middleware that has a proxy for their scheme.
C24_WitnessUnchanged ==
    /\ px.phase = "processed" /\ px.calls = 1
    /\ px.given.scheme \in DOMAIN px.proxies
    /\ px.request = px.given
    /\ \/ px.given.meta = NoMeta /\ px.given.hostname \in px.bypass
       \/ px.given.meta = MetaProxy(None)

C25_WitnessKept ==
    /\ px.phase = "processed" /\ px.calls = 1
    /\ px.given.meta = MetaProxy(Url("http", "//", "me", "secret", "mine:8080"))
    /\ px.given.headers = ProxyAuthorization(Basic(<<"other", "word">>))
    /\ px.request.headers = px.given.headers
    /\ px.request.meta = MetaProxy(Url("http", "//", "", "", "mine:8080"))

====
